---- MODULE Spec2Model ----
(***************************************************************************)
(* State-machine model of the fastify-api backend: the credential store    *)
(* (userService.ts over the Prisma User model), JWT issue and verification *)
(* (@fastify/jwt as registered in index.ts), the preHandler chain          *)
(* (authenticate, adminOnly), the route handlers of routes/auth.ts and     *)
(* routes/users.ts with their controllers, and the streaming upload of     *)
(* utils/fileUpload.ts.                                                    *)
(*                                                                         *)
(* Spec       : one HTTP request at a time through the Fastify lifecycle   *)
(*              (schema validation, preHandler hooks, handler).            *)
(* SpecUpload : one call of handleFileUpload, with the stream events of    *)
(*              the source and of the destination interleaved freely.      *)
(***************************************************************************)
EXTENDS Integers, Sequences, FiniteSets, TLC

(***************************************************************************)
(* Bounds of the model.                                                    *)
(***************************************************************************)
\* ids 1..MaxUsers can be assigned by the autoincrement column
MaxUsers == 2
\* number of bearer tokens the clients keep at one time
MaxTokens == 1
\* bcrypt salts are drawn from 0..MaxSalt
MaxSalt == 0
\* the issued-at second of a token is drawn from 0..MaxIat
MaxIat == 1

(***************************************************************************)
(* Program constants.                                                      *)
(***************************************************************************)
MinPasswordLength == 6
MinNameLength == 2
BcryptRounds == 10

Absent == "<absent>"
Null == "<null>"
Roles == {"USER", "ADMIN"}

WellFormedEmails == {"admin@example.com", "john@example.com"}
EmailInputs == WellFormedEmails \cup {"not-an-email"}
PasswordInputs == {"admin123", "user123", "abc"}
NameInputs == {"Jane", "J"}

Ids == 1..MaxUsers
Salts == 0..MaxSalt

\* process.env.JWT_SECRET || "your-secret-key"
Secret == "your-secret-key"
OtherSecret == "some-other-key"

(***************************************************************************)
(* bcryptjs: a salted one-way hash; compare re-hashes with the hash's salt *)
(***************************************************************************)
bcryptHash(password, salt) ==
    [alg |-> "bcrypt", rounds |-> BcryptRounds, salt |-> salt, digest |-> password]

bcryptCompare(password, hash) == hash = bcryptHash(password, hash.salt)

(***************************************************************************)
(* @fastify/jwt: sign puts the claims and the issued-at second in the      *)
(* payload and appends an HMAC over the payload under the secret; verify   *)
(* needs three well-formed segments and a signature equal to the HMAC of   *)
(* the payload under the process secret, and yields the decoded payload.   *)
(***************************************************************************)
Hmac(payload, key) == [over |-> payload, key |-> key, tail |-> 0]

\* sign that leaves the role out of the payload it signs
jwtSignNoRole(claims, iat) ==
    LET payload == [id |-> claims.id, email |-> claims.email, name |-> claims.name,
                    role |-> Absent, iat |-> iat]
    IN  [parts |-> 3, payload |-> payload, sig |-> Hmac(payload, Secret)]

jwtSign(claims, iat) ==
    LET payload == [id |-> claims.id, email |-> claims.email, name |-> claims.name,
                    role |-> claims.role, iat |-> iat]
    IN  [parts |-> 3, payload |-> payload, sig |-> Hmac(payload, Secret)]

\* verify that decodes without comparing the signature
jwtDecodes(token) == token.parts = 3

jwtVerifies(token) == token.parts = 3 /\ token.sig = Hmac(token.payload, Secret)

\* the bearer header: {} when missing, else a one-element set
jwtVerify(auth) == IF auth # {} /\ (\A t \in auth : jwtVerifies(t))
                   THEN {t.payload : t \in auth}
                   ELSE {}

\* what a client can build from a token it holds, without the secret
TamperTail(t) == [t EXCEPT !.sig.tail = 1 - @]
Resign(t) == [t EXCEPT !.sig = Hmac(t.payload, OtherSecret)]
Escalate(t) == [t EXCEPT !.payload.role = "ADMIN"]
Truncate(t) == [t EXCEPT !.parts = 2]

Presentable(held) ==
    held \cup {TamperTail(t) : t \in held} \cup {Resign(t) : t \in held}
         \cup {Escalate(t) : t \in held} \cup {Truncate(t) : t \in held}

Bearers(held) == {{}} \cup {{t} : t \in Presentable(held)}

(***************************************************************************)
(* The User table (prisma/schema.prisma) and userService.ts                *)
(***************************************************************************)
\* a selection that returns the row as stored
SelectRow(u) == u

\* select: id, email, name, avatar, role (the timestamps are not modelled)
Select(u) == [id |-> u.id, email |-> u.email, name |-> u.name,
              avatar |-> u.avatar, role |-> u.role]

findByEmail(us, email) == {us[i] : i \in {j \in DOMAIN us : us[j].email = email}}

findById(us, id) == {us[i] : i \in {j \in DOMAIN us : j = id}}

Extend(us, id, rec) == [i \in DOMAIN us \cup {id} |-> IF i = id THEN rec ELSE us[i]]

Remove(us, id) == [i \in DOMAIN us \ {id} |-> us[i]]

Failure(us, nid, message) ==
    [ok |-> FALSE, message |-> message, users |-> us, nextId |-> nid, user |-> {}]

\* data: [email, password, name, avatar, role, confirmPassword], Absent for a
\* field the caller did not pass.  prisma.user.create rejects an argument the
\* model does not have, and the unique index on email rejects a duplicate.
\* createUser without the findUnique check and against a table without the
\* unique index
createUserUnchecked(us, nid, data, salt) ==
    LET rec == [id |-> nid, email |-> data.email,
                password |-> bcryptHash(data.password, salt), name |-> data.name,
                avatar |-> IF data.avatar = Absent THEN Null ELSE data.avatar,
                role |-> IF data.role = Absent THEN "USER" ELSE data.role]
    IN  [ok |-> TRUE, message |-> "", users |-> Extend(us, nid, rec),
         nextId |-> nid + 1, user |-> {Select(rec)}]

createUser(us, nid, data, salt) ==
    IF findByEmail(us, data.email) # {}
    THEN Failure(us, nid, "User with this email already exists")
    ELSE IF data.confirmPassword # Absent
    THEN Failure(us, nid, "Unknown argument confirmPassword")
    ELSE LET rec == [id |-> nid,
                     email |-> data.email,
                     password |-> bcryptHash(data.password, salt),
                     name |-> data.name,
                     avatar |-> IF data.avatar = Absent THEN Null ELSE data.avatar,
                     role |-> IF data.role = Absent THEN "USER" ELSE data.role]
         IN  [ok |-> TRUE, message |-> "", users |-> Extend(us, nid, rec),
              nextId |-> nid + 1, user |-> {Select(rec)}]

getAllUsers(us) == {Select(us[i]) : i \in DOMAIN us}

getUserById(us, nid, id) ==
    IF findById(us, id) = {}
    THEN Failure(us, nid, "User not found")
    ELSE [ok |-> TRUE, message |-> "", users |-> us, nextId |-> nid,
          user |-> {Select(u) : u \in findById(us, id)}]

\* updateUser without the emailExists check, on a table without the index
updateUserUnchecked(us, nid, id, data) ==
    IF findById(us, id) = {}
    THEN Failure(us, nid, "User not found")
    ELSE LET rec == [us[id] EXCEPT
                       !.email = IF data.email = Absent THEN @ ELSE data.email,
                       !.name = IF data.name = Absent THEN @ ELSE data.name,
                       !.avatar = IF data.avatar = Absent THEN @ ELSE data.avatar,
                       !.role = IF data.role = Absent THEN @ ELSE data.role]
         IN  [ok |-> TRUE, message |-> "", users |-> [us EXCEPT ![id] = rec],
              nextId |-> nid, user |-> {Select(rec)}]

\* data: [email, name, avatar, role], Absent for a field that is not updated
updateUser(us, nid, id, data) ==
    IF findById(us, id) = {}
    THEN Failure(us, nid, "User not found")
    ELSE IF data.email # Absent /\ data.email # us[id].email
            /\ findByEmail(us, data.email) # {}
    THEN Failure(us, nid, "Email already in use")
    ELSE LET rec == [us[id] EXCEPT
                       !.email = IF data.email = Absent THEN @ ELSE data.email,
                       !.name = IF data.name = Absent THEN @ ELSE data.name,
                       !.avatar = IF data.avatar = Absent THEN @ ELSE data.avatar,
                       !.role = IF data.role = Absent THEN @ ELSE data.role]
         IN  [ok |-> TRUE, message |-> "", users |-> [us EXCEPT ![id] = rec],
              nextId |-> nid, user |-> {Select(rec)}]

deleteUser(us, nid, id) ==
    IF findById(us, id) = {}
    THEN Failure(us, nid, "User not found")
    ELSE [ok |-> TRUE, message |-> "User deleted successfully",
          users |-> Remove(us, id), nextId |-> nid, user |-> {}]

\* the record without its password, or the one error for both failures
\* loginUser telling an unknown email from a wrong password
loginUserTelling(us, nid, credentials) ==
    IF findByEmail(us, credentials.email) = {}
    THEN Failure(us, nid, "User not found")
    ELSE IF \A u \in findByEmail(us, credentials.email) :
               ~bcryptCompare(credentials.password, u.password)
    THEN Failure(us, nid, "Invalid credentials")
    ELSE [ok |-> TRUE, message |-> "", users |-> us, nextId |-> nid,
          user |-> {Select(u) : u \in findByEmail(us, credentials.email)}]

loginUser(us, nid, credentials) ==
    IF findByEmail(us, credentials.email) = {}
    THEN Failure(us, nid, "Invalid credentials")
    ELSE IF \A u \in findByEmail(us, credentials.email) :
               ~bcryptCompare(credentials.password, u.password)
    THEN Failure(us, nid, "Invalid credentials")
    ELSE [ok |-> TRUE, message |-> "", users |-> us, nextId |-> nid,
          user |-> {Select(u) : u \in findByEmail(us, credentials.email)}]

(***************************************************************************)
(* Requests.  A body is a record of its six possible fields.               *)
(***************************************************************************)
Body(email, password, confirmPassword, name, role) ==
    [email |-> email, password |-> password, confirmPassword |-> confirmPassword,
     name |-> name, role |-> role, avatar |-> Absent]

EmptyBody == Body(Absent, Absent, Absent, Absent, Absent)

LoginBodies == {Body(e, p, Absent, Absent, Absent) : e \in EmailInputs, p \in PasswordInputs}

\* every well-formed registration, and one body for each way of being malformed
RegisterBodies ==
    {Body(e, "user123", c, "Jane", r) :
        e \in WellFormedEmails, c \in {Absent, "user123"}, r \in Roles \cup {Absent}}
    \cup {Body("not-an-email", "user123", "user123", "Jane", Absent),
          Body("john@example.com", "abc", "abc", "Jane", Absent),
          Body("john@example.com", "user123", "user123", "J", Absent),
          Body("john@example.com", "user123", "admin123", "Jane", Absent)}

\* updates of one field, and the empty update
UpdateBodies ==
    {Body(e, Absent, Absent, Absent, Absent) : e \in EmailInputs}
    \cup {Body(Absent, Absent, Absent, Absent, r) : r \in Roles}
    \cup {Body(Absent, Absent, Absent, "J", Absent), EmptyBody}

IsEmail(e) == e \in WellFormedEmails

Has(b, field) == b[field] # Absent

MinLen(b, field, n) == Has(b, field) /\ Len(b[field]) >= n

OptMinLen(b, field, n) == ~Has(b, field) \/ Len(b[field]) >= n

(***************************************************************************)
(* The JSON schemas the routes hand to Fastify (validated before the       *)
(* preHandler hooks run)                                                   *)
(***************************************************************************)
\* routes/auth.ts loginSchema
loginSchema(b) ==
    /\ Has(b, "email") /\ IsEmail(b.email)
    /\ MinLen(b, "password", MinPasswordLength)

\* routes/auth.ts registerSchema
registerSchema(b) ==
    /\ Has(b, "email") /\ IsEmail(b.email)
    /\ MinLen(b, "password", MinPasswordLength)
    /\ MinLen(b, "name", MinNameLength)
    /\ b.role \in Roles \cup {Absent}

\* routes/users.ts createUserSchema
createUserSchema(b) ==
    /\ Has(b, "email") /\ IsEmail(b.email)
    /\ MinLen(b, "password", MinPasswordLength)
    /\ MinLen(b, "confirmPassword", MinPasswordLength)
    /\ MinLen(b, "name", MinNameLength)
    /\ b.role \in Roles \cup {Absent}

\* routes/users.ts updateUserSchema
updateUserSchema(b) ==
    /\ ~Has(b, "email") \/ IsEmail(b.email)
    /\ OptMinLen(b, "name", MinNameLength)
    /\ b.role \in Roles \cup {Absent}

(***************************************************************************)
(* The zod schemas the controllers parse the body with                     *)
(***************************************************************************)
\* validations/authValidation.ts loginSchema
zodLoginSchema(b) ==
    /\ Has(b, "email") /\ IsEmail(b.email)
    /\ MinLen(b, "password", MinPasswordLength)

\* validations/authValidation.ts registerSchema, validations/userValidation.ts
\* createUserSchema: the same fields, and password = confirmPassword
zodRegisterSchema(b) ==
    /\ MinLen(b, "name", MinNameLength)
    /\ Has(b, "email") /\ IsEmail(b.email)
    /\ MinLen(b, "password", MinPasswordLength)
    /\ MinLen(b, "confirmPassword", MinPasswordLength)
    /\ b.role \in Roles \cup {Absent}
    /\ b.password = b.confirmPassword

\* validations/userValidation.ts updateUserSchema
zodUpdateSchema(b) ==
    /\ OptMinLen(b, "name", MinNameLength)
    /\ ~Has(b, "email") \/ IsEmail(b.email)
    /\ b.role \in Roles \cup {Absent}

\* .optional().default('USER')
WithDefaultRole(b) == [b EXCEPT !.role = IF @ = Absent THEN "USER" ELSE @]

(***************************************************************************)
(* State                                                                   *)
(***************************************************************************)
VARIABLES
    users,      \* the User table: id -> record
    nextId,     \* the autoincrement counter of User.id
    files,      \* the names of the files in storage/avatars
    held,       \* the tokens the clients hold
    req,        \* the request in its lifecycle: {} or one request
    resp,       \* the response to the last request
    up,         \* the upload transfer of one handleFileUpload call
    registered, \* history: the emails a registration has succeeded with
    calls,      \* the service calls in flight together: call -> its position
    srv         \* the process of index.ts: its flags, start() and shutdown calls

vars == <<users, nextId, files, held, req, resp, up, registered, calls, srv>>

(***************************************************************************)
(* index.ts: the module state before start() is called                     *)
(***************************************************************************)
MaxStarts == 3
MaxShutdowns == 2

StartCalls == 1..MaxStarts
ShutdownCalls == 1..MaxShutdowns

\* MAX_RETRIES
MAX_RETRIES == 3

\* parseInt(process.env.PORT || "3000")
port == 3000

\* let isServerStarting = false; let isServerListening = false;
\* let isShuttingDown = false; no start() or gracefulShutdown() called yet.
\* exit is the exit code of the process, -1 while it runs
NoServer ==
    [isServerStarting |-> FALSE, isServerListening |-> FALSE, isShuttingDown |-> FALSE,
     exit |-> -1, servers |-> 1,
     start |-> [p \in StartCalls |-> [pc |-> "idle", attempts |-> 0, available |-> FALSE]],
     listens |-> {},
     shut |-> [q \in ShutdownCalls |-> "idle"],
     disconnect |-> "", close |-> ""]

Req(route, auth, id, body, multipart, file) ==
    [route |-> route, auth |-> auth, id |-> id, body |-> body,
     multipart |-> multipart, file |-> file, pc |-> "received", user |-> {}]

AdminRoutes == {"getAllUsers", "getUserById", "createUser", "deleteUser"}
OwnerRoutes == {"updateUser", "uploadAvatar"}
ProtectedRoutes == AdminRoutes \cup OwnerRoutes \cup {"getProfile"}

\* the chains with adminOnly listed before authenticate
preHandlerAdminFirst(route) ==
    IF route \in AdminRoutes THEN <<"adminOnly", "authenticate">>
    ELSE IF route \in ProtectedRoutes THEN <<"authenticate">>
    ELSE <<>>

\* routes/users.ts: preHandler: [authenticate, adminOnly] or [authenticate]
preHandler(route) ==
    IF route \in AdminRoutes THEN <<"authenticate", "adminOnly">>
    ELSE IF route \in ProtectedRoutes THEN <<"authenticate">>
    ELSE <<>>

\* the hook after hook number n of the route, or the handler
Stage(route, n) == IF n < Len(preHandler(route)) THEN preHandler(route)[n + 1] ELSE "handler"

NoResp ==
    [route |-> "", status |-> 0, error |-> "", message |-> "", details |-> FALSE,
     token |-> {}, user |-> {}, handler |-> "none", op |-> "none", by |-> {}, target |-> 0,
     auth |-> {}, body |-> EmptyBody, log |-> EmptyBody]

\* the fields of the body a handler hands to logInfo and logError: the email
\* of a login or a created user, email and name of a registration, the
\* updates of an update
logged(r) ==
    CASE r.route \in {"login", "AuthController.login", "createUser"} ->
             [EmptyBody EXCEPT !.email = r.body.email]
      [] r.route \in {"register", "AuthController.register"} ->
             [EmptyBody EXCEPT !.email = r.body.email, !.name = r.body.name]
      [] r.route = "updateUser" ->
             [r.body EXCEPT !.password = Absent, !.confirmPassword = Absent]
      [] OTHER -> EmptyBody

\* reply.status(status).send({error, message, details?, token?, user?}); with
\* it, for the record: the handler that sent it, the service operation it
\* called, the request it answers (identity, target id, bearer, body), and
\* the fields of the body written to the log while the request was served
Reply(r, status, error, message, details, token, user, handler, op) ==
    [route |-> r.route, status |-> status, error |-> error, message |-> message,
     details |-> details, token |-> token, user |-> user, handler |-> handler,
     op |-> op, by |-> r.user, target |-> r.id, auth |-> r.auth, body |-> r.body,
     log |-> IF handler = r.route THEN logged(r) ELSE EmptyBody]

\* the seeded administrator (readme: Default Users)
SeedAdmin ==
    [id |-> 1, email |-> "admin@example.com", password |-> bcryptHash("admin123", 0),
     name |-> "Admin", avatar |-> Null, role |-> "ADMIN"]

(***************************************************************************)
(* utils/fileUpload.ts: handleFileUpload(req, userId)                      *)
(*                                                                         *)
(* A media type is <<type, subtype>>, a file name its dot-separated        *)
(* segments, a source stream the lengths of the chunks it delivers.        *)
(***************************************************************************)
\* const maxSize = 5 * 1024 * 1024
maxSize == 5 * 1024 * 1024

\* chunks a source delivers before it ends
MaxChunks == 2
\* randomUUID() draws from MaxUuid + 1 values
MaxUuid == 0

ChunkSizes == {1, maxSize - 1, maxSize, maxSize + 1}
MediaTypes == {<<"image", "png">>, <<"image", "svg+xml">>, <<"text", "plain">>}
\* data.filename as the multipart plugin reports it (the base name of what the
\* client sent), as the sequence of its pieces between dots
FileNames == {<<"photo", "png">>, <<"shell", "php">>, <<"photo">>}
Uuids == {"uuid" \o ToString(i) : i \in 0..MaxUuid}

\* data.mimetype?.startsWith("image/")
isImage(mimetype) == mimetype[1] = "image"

\* data.filename.split(".").pop()
fileExt(filename) == filename[Len(filename)]

\* `user_${userId}_${randomUUID()}.${fileExt}`
storedName(userId, uuid, filename) ==
    "user_" \o ToString(userId) \o "_" \o uuid \o "." \o fileExt(filename)

\* `/src/storage/avatars/${fileName}`
fileUrlOf(fileName) == "/src/storage/avatars/" \o fileName

RECURSIVE Sum(_)
Sum(chunks) == IF chunks = <<>> THEN 0 ELSE Head(chunks) + Sum(Tail(chunks))

ChunkSeqs == UNION {[1..n -> ChunkSizes] : n \in 0..MaxChunks}

FieldNames == {"avatar", "file"}

Parts == {[fieldname |-> n, mimetype |-> m, filename |-> f, chunks |-> c] :
            n \in FieldNames, m \in MediaTypes, f \in FileNames, c \in ChunkSeqs}

NoUpload ==
    [pc |-> "idle", part |-> {}, userId |-> 0, fileName |-> "", src |-> <<>>,
     srcEnded |-> FALSE, fileSize |-> 0, opened |-> FALSE, destroyed |-> FALSE,
     errPending |-> "", ended |-> FALSE, finished |-> FALSE, handed |-> 0,
     disk |-> 0, exists |-> FALSE, result |-> "", kind |-> "", error |-> "",
     aborted |-> ""]

\* the call handleFileUpload(req, userId) where req.file() yields part
UploadCall(part, userId) == [NoUpload EXCEPT !.pc = "start", !.part = part, !.userId = userId]

\* the catch block: whatever was thrown, new Error("Failed to upload file")
uploadCatch(u, error) ==
    [u EXCEPT !.pc = "thrown", !.kind = "Error", !.result = "Failed to upload file",
              !.error = error]

\* lines 38-58: req.file(), the media type check, the file name,
\* createWriteStream(filePath), and the 'data' listener that starts the flow
uploadBegin(u, uuid) ==
    IF u.part = {} THEN uploadCatch(u, "No file uploaded")
    ELSE LET data == CHOOSE d \in u.part : TRUE
         IN  IF ~isImage(data.mimetype)
             THEN uploadCatch(u, "Only image files are allowed")
             ELSE [u EXCEPT !.pc = "streaming",
                            !.fileName = storedName(u.userId, uuid, data.filename),
                            !.src = data.chunks]

\* writeStream.destroy(error): the first destroy schedules the 'error' event
wsDestroy(u, error) ==
    IF u.destroyed THEN u ELSE [u EXCEPT !.destroyed = TRUE, !.errPending = error]

\* writeStream.write(chunk): a destroyed or ended stream takes no more bytes
wsWrite(u, n) ==
    IF u.destroyed \/ u.ended THEN u ELSE [u EXCEPT !.handed = @ + n]

\* a listener that writes the chunk before it looks at the counter
onDataWriteFirst(u, n) ==
    LET v == wsWrite([u EXCEPT !.fileSize = @ + n], n)
    IN  IF v.fileSize > maxSize
        THEN wsDestroy(v, "File size exceeds the maximum allowed limit of 5MB")
        ELSE v

\* data.file.on("data"): count, then destroy when over the limit, else write
onData(u, n) ==
    LET v == [u EXCEPT !.fileSize = @ + n]
    IN  IF v.fileSize > maxSize
        THEN wsDestroy(v, "File size exceeds the maximum allowed limit of 5MB")
        ELSE wsWrite(v, n)

\* data.file.on("end"): writeStream.end(); resolve(), and the awaiting
\* function goes on to return its result
onEnd(u) ==
    LET v == [u EXCEPT !.srcEnded = TRUE, !.ended = TRUE]
    IN  IF v.pc = "streaming" THEN [v EXCEPT !.pc = "returned", !.result = "success"] ELSE v

\* writeStream.on("error"): unlink the file if it exists; reject(error), and
\* the awaiting function throws from its catch block
onError(u) ==
    LET v == [u EXCEPT !.exists = FALSE, !.errPending = ""]
    IN  IF v.pc = "streaming" THEN uploadCatch(v, u.errPending) ELSE v

UploadFrame == UNCHANGED <<users, nextId, files, held, req, resp, registered, calls, srv>>

\* the process runs: an uncaught exception ends it (process.exit(1))
Alive == up.pc # "crashed"

UploadBegin ==
    /\ up.pc = "start"
    /\ \E uuid \in Uuids : up' = uploadBegin(up, uuid)
    /\ UploadFrame

\* the destination file is opened (created) some time after createWriteStream
UploadOpen ==
    /\ Alive
    /\ up.fileName # ""
    /\ ~up.opened
    /\ up' = [up EXCEPT !.opened = TRUE, !.exists = TRUE]
    /\ UploadFrame

UploadData ==
    /\ Alive
    /\ up.fileName # ""
    /\ up.src # <<>>
    /\ up' = [onData(up, Head(up.src)) EXCEPT !.src = Tail(up.src)]
    /\ UploadFrame

UploadEnd ==
    /\ Alive
    /\ up.fileName # ""
    /\ up.src = <<>>
    /\ ~up.srcEnded
    /\ up.aborted = ""
    /\ up' = onEnd(up)
    /\ UploadFrame

\* the source ends without 'end': the connection closes and the part is
\* destroyed ('close'), or it emits 'error'.  handleFileUpload listens for
\* neither: after 'close' nothing runs; an 'error' that no one else listens
\* for is an uncaught exception, and the process exits
UploadAbort ==
    /\ Alive
    /\ up.fileName # ""
    /\ ~up.srcEnded
    /\ up.aborted = ""
    /\ \E event \in {"close", "error"} :
          up' = [up EXCEPT !.aborted = IF up.opened THEN "after open" ELSE "before open",
                           !.src = <<>>,
                           !.pc = IF event = "error" THEN "crashed" ELSE @]
    /\ UploadFrame

\* the bytes handed to the stream reach the file
UploadFlush ==
    /\ Alive
    /\ up.opened
    /\ ~up.destroyed
    /\ up.disk < up.handed
    /\ up' = [up EXCEPT !.disk = up.handed]
    /\ UploadFrame

\* a write fails (disk full, I/O error): the stream destroys itself
UploadWriteFails ==
    /\ Alive
    /\ up.opened
    /\ ~up.destroyed
    /\ up.disk < up.handed
    /\ up' = wsDestroy(up, "ENOSPC")
    /\ UploadFrame

\* the 'error' event of a destroyed stream, after the file was opened and closed
UploadError ==
    /\ Alive
    /\ up.errPending # ""
    /\ up.opened
    /\ up' = onError(up)
    /\ UploadFrame

\* the 'finish' event: everything written after end()
UploadFinish ==
    /\ Alive
    /\ up.ended
    /\ up.opened
    /\ ~up.destroyed
    /\ ~up.finished
    /\ up.disk = up.handed
    /\ up' = [up EXCEPT !.finished = TRUE]
    /\ UploadFrame

UploadNext ==
    \/ UploadBegin
    \/ UploadOpen
    \/ UploadData
    \/ UploadEnd
    \/ UploadAbort
    \/ UploadFlush
    \/ UploadWriteFails
    \/ UploadError
    \/ UploadFinish

\* what a call of handleFileUpload comes to once its streams are at rest, for
\* a part whose source is delivered to its 'end': the result of the call, the
\* name it chose, and whether the file is in storage
uploadOutcomes(part, userId) ==
    IF part = {} \/ \E d \in part : ~isImage(d.mimetype)
    THEN {[result |-> "Failed to upload file", fileName |-> "", stored |-> FALSE]}
    ELSE LET data == CHOOSE d \in part : TRUE
             names == {storedName(userId, uuid, data.filename) : uuid \in Uuids}
             results == IF Sum(data.chunks) > maxSize
                        THEN {<<"success", FALSE>>, <<"Failed to upload file", FALSE>>}
                        ELSE IF Sum(data.chunks) = 0
                        THEN {<<"success", TRUE>>}
                        ELSE {<<"success", TRUE>>, <<"success", FALSE>>,
                              <<"Failed to upload file", FALSE>>}
         IN  {[result |-> x[1], fileName |-> n, stored |-> x[2]] : n \in names, x \in results}

(***************************************************************************)
(* Fastify: routing and schema validation of a received request            *)
(***************************************************************************)
\* the body schema of the route; a multipart body is not attached to the
\* request (attachFieldsToBody: false), so a route with a body schema sees none
schemaOk(r) ==
    CASE r.route = "login" -> loginSchema(r.body)
      [] r.route = "register" -> ~r.multipart /\ registerSchema(r.body)
      [] r.route = "createUser" -> createUserSchema(r.body)
      [] r.route = "updateUser" -> updateUserSchema(r.body)
      [] OTHER -> TRUE

\* server.setErrorHandler of start(): statusCode, error.name, message; its
\* logError entry holds body: request.body, the body as it was received
validationReply(r) ==
    [Reply(r, 400, "FastifyError", "body is invalid", FALSE, {}, {}, "none", "none")
        EXCEPT !.log = r.body]

\* avatarSchema.safeParse({filename, mimetype, fieldname})
avatarSchema(d) ==
    /\ d.mimetype \in {<<"image", "jpeg">>, <<"image", "png">>, <<"image", "gif">>,
                       <<"image", "webp">>}
    /\ d.fieldname = "avatar"

\* the files a client sends: none, or one part of one chunk
RequestFiles ==
    {{}} \cup {{p} : p \in {q \in Parts : /\ Len(q.chunks) = 1
                                         /\ q.filename = <<"photo", "png">>
                                         /\ q.chunks[1] \in {1, maxSize + 1}
                                         /\ (q.chunks[1] = 1 \/ avatarSchema(q))}}

CreatingRoutes == {"register", "createUser", "AuthController.register"}

Requests ==
    {Req(rt, {}, 0, b, FALSE, {}) : rt \in {"login", "AuthController.login"}, b \in LoginBodies}
    \cup {Req(rt, {}, 0, b, FALSE, {}) : rt \in {"register", "AuthController.register"},
                                         b \in RegisterBodies}
    \cup {Req("register", {}, 0, EmptyBody, TRUE, {})}
    \cup {Req("AuthController.register", {}, 0, EmptyBody, TRUE, f) : f \in RequestFiles}
    \cup {Req(rt, a, 0, EmptyBody, FALSE, {}) : rt \in {"getAllUsers", "getProfile"},
                                                a \in Bearers(held)}
    \cup {Req(rt, a, i, EmptyBody, FALSE, {}) : rt \in {"getUserById", "deleteUser"},
                                                a \in Bearers(held), i \in Ids}
    \cup {Req("createUser", a, 0, b, FALSE, {}) : a \in Bearers(held), b \in RegisterBodies}
    \cup {Req("updateUser", a, i, b, FALSE, {}) : a \in Bearers(held), i \in Ids,
                                                  b \in UpdateBodies}
    \cup {Req("uploadAvatar", a, i, EmptyBody, FALSE, {}) : a \in Bearers(held), i \in Ids}
    \cup {Req("uploadAvatar", a, i, EmptyBody, TRUE, f) : a \in Bearers(held), i \in Ids,
                                                          f \in RequestFiles}

\* the autoincrement column is bounded: a request that would be given an id
\* above MaxUsers is not taken up
Admissible(r) ==
    r.route \in CreatingRoutes =>
        nextId <= MaxUsers \/ ~createUser(users, nextId, [r.body EXCEPT !.confirmPassword = Absent], 0).ok

Receive ==
    /\ req = {}
    /\ resp = NoResp
    /\ \E r \in Requests :
        /\ Admissible(r)
        /\ IF schemaOk(r)
           THEN /\ req' = {[r EXCEPT !.pc = Stage(r.route, 0)]}
                /\ resp' = NoResp
           ELSE /\ req' = {}
                /\ resp' = validationReply(r)
    /\ UNCHANGED <<users, nextId, files, held, up, registered, calls, srv>>

(***************************************************************************)
(* middleware/auth.ts and middleware/admin.ts                              *)
(***************************************************************************)
\* an authenticate that accepts the token only while its user is in the table
\* with the claims of the token
authenticateFromTable(r) ==
    {c \in jwtVerify(r.auth) :
        \E i \in DOMAIN users : users[i].id = c.id /\ users[i].email = c.email
                                 /\ users[i].role = c.role}

\* request.jwtVerify(): the identity of the request, {} when it throws
authenticate(r) == jwtVerify(r.auth)

Authenticate ==
    /\ \E r \in req :
        /\ r.pc = "authenticate"
        /\ IF authenticate(r) = {}
           THEN /\ resp' = Reply(r, 401, "Unauthorized", "Invalid or missing token",
                                 FALSE, {}, {}, "none", "none")
                /\ req' = {}
           ELSE /\ req' = {[r EXCEPT !.user = authenticate(r), !.pc = Stage(r.route, 1)]}
                /\ resp' = resp
    /\ UNCHANGED <<users, nextId, files, held, up, registered, calls, srv>>

IsAdmin(user) == \E u \in user : u.role = "ADMIN"

\* adminOnly that lets every identified caller through
adminOnlyAnyUser(variant, user) == IF user = {} THEN 403 ELSE 0

\* middleware/admin.ts: 403 unless request.user?.role is ADMIN
\* middleware/auth.ts: 401 without request.user, 403 unless its role is ADMIN
\* 0 stands for "the hook lets the request through"
adminOnly(variant, user) ==
    IF variant = "auth" /\ user = {} THEN 401
    ELSE IF ~IsAdmin(user) THEN 403
    ELSE 0

AdminOnly ==
    /\ \E r \in req, variant \in {"admin", "auth"} :
        /\ r.pc = "adminOnly"
        /\ IF adminOnly(variant, r.user) = 0
           THEN /\ req' = {[r EXCEPT !.pc = Stage(r.route, 2)]}
                /\ resp' = resp
           ELSE /\ req' = {}
                /\ resp' = IF adminOnly(variant, r.user) = 401
                           THEN Reply(r, 401, "Unauthorized", "Authentication required",
                                      FALSE, {}, {}, "none", "none")
                           ELSE Reply(r, 403, "Forbidden", "Admin access required",
                                      FALSE, {}, {}, "none", "none")
    /\ UNCHANGED <<users, nextId, files, held, up, registered, calls, srv>>

(***************************************************************************)
(* The clients: one exchange at a time.  The response is read, and its     *)
(* token kept or not; a kept token can be dropped                          *)
(***************************************************************************)
ClientRead ==
    /\ req = {}
    /\ resp # NoResp
    /\ resp' = NoResp
    /\ UNCHANGED <<users, nextId, files, held, req, up, registered, calls, srv>>

ClientKeep ==
    /\ req = {}
    /\ resp.token # {}
    /\ Cardinality(held) < MaxTokens
    /\ held' = held \cup resp.token
    /\ resp' = NoResp
    /\ UNCHANGED <<users, nextId, files, req, up, registered, calls, srv>>

ClientDrop ==
    /\ req = {}
    /\ resp = NoResp
    /\ \E t \in held : held' = held \ {t}
    /\ UNCHANGED <<users, nextId, files, req, resp, up, registered, calls, srv>>

(***************************************************************************)
(* routes/auth.ts and controllers/authController.ts                        *)
(***************************************************************************)
Claims(u) == [id |-> u.id, email |-> u.email, name |-> u.name, role |-> u.role]

\* fastify.jwt.sign({id, email, name, role}) for the user of a service result
SignFor(user, iat) == {jwtSign(Claims(u), iat) : u \in user}

\* POST /login of routes/auth.ts
loginReply(r, us, nid, iat) ==
    LET res == loginUser(us, nid, r.body)
    IN  IF res.ok
        THEN Reply(r, 200, "", "", FALSE, SignFor(res.user, iat), res.user, r.route, "loginUser")
        ELSE Reply(r, 401, "Authentication failed", res.message, FALSE, {}, {},
                   r.route, "loginUser")

\* AuthController.login: loginSchema.parse, then as the route
controllerLoginReply(r, us, nid, iat) ==
    IF ~zodLoginSchema(r.body)
    THEN Reply(r, 400, "Validation Error", "Invalid login data", TRUE, {}, {}, r.route, "none")
    ELSE loginReply(r, us, nid, iat)

Login ==
    /\ \E r \in req, iat \in 0..MaxIat :
        /\ r.pc = "handler"
        /\ r.route = "login"
        /\ resp' = loginReply(r, users, nextId, iat)
    /\ req' = {}
    /\ UNCHANGED <<users, nextId, files, held, up, registered, calls, srv>>

ControllerLogin ==
    /\ \E r \in req, iat \in 0..MaxIat :
        /\ r.pc = "handler"
        /\ r.route = "AuthController.login"
        /\ resp' = controllerLoginReply(r, users, nextId, iat)
    /\ req' = {}
    /\ UNCHANGED <<users, nextId, files, held, up, registered, calls, srv>>

\* history: the emails registered, after a reply: a register or create-user
\* request answered 201 adds the email of the record it returns
Registered(reg, reply) ==
    IF reply.route \in CreatingRoutes /\ reply.status = 201
    THEN reg \cup {u.email : u \in reply.user}
    ELSE reg

\* the outcome of a handler: the reply and the table it leaves
Outcome(reply, res) == [reply |-> reply, users |-> res.users, nextId |-> res.nextId]

\* POST /register of routes/auth.ts (a JSON body: a multipart request does not
\* pass the body schema): userData = {...request.body}
registerHandler(r, us, nid, salt, iat) ==
    LET res == createUser(us, nid, r.body, salt)
    IN  IF res.ok
        THEN Outcome(Reply(r, 201, "", "", FALSE, SignFor(res.user, iat), res.user,
                           r.route, "createUser"), res)
        ELSE Outcome(Reply(r, 400, "Registration failed", res.message, FALSE, {}, {},
                           r.route, "createUser"), res)

\* the part a second request.file() of the same request yields: the plugin
\* parses the request again, and either finds the part or finds nothing
secondFile(r) == {r.file, {}}

\* AuthController.register, before it validates: for a multipart request with
\* a file, handleFileUpload(request, 0); its error is logged and dropped.
\* The outcomes of the upload the handler goes on with
controllerRegisterUpload(r) ==
    IF r.multipart /\ r.file # {}
    THEN UNION {uploadOutcomes(part, 0) : part \in secondFile(r)}
    ELSE {[result |-> "none", fileName |-> "", stored |-> FALSE]}

\* avatarUrl.replace('user_0_', `user_${id}_`): the name of the file with the
\* owner id in the place of the placeholder 0
replaceOwner(fileName, id) ==
    LET made == {<<uuid, f>> \in Uuids \X FileNames : fileName = storedName(0, uuid, f)}
    IN  IF made = {} THEN fileName
        ELSE LET m == CHOOSE x \in made : TRUE IN storedName(id, m[1], m[2])

\* the avatar reference a registration goes on with after upload outcome o
avatarUrlOf(o) == IF o.result = "success" THEN fileUrlOf(o.fileName) ELSE Absent

\* AuthController.register after the upload: registerSchema.parse of
\* request.body (a multipart request has none, and parse throws), then
\* userData = {...validatedData, avatar?, confirmPassword: undefined},
\* createUser, and with an avatar updateUser(user.id, {avatar}) with the URL
\* in which user_0_ is replaced by user_<id>_
controllerRegisterHandler(r, us, nid, salt, iat, o) ==
    IF ~zodRegisterSchema(r.body)
    THEN Outcome(Reply(r, 400, "Validation Error", "Invalid registration data", TRUE,
                       {}, {}, r.route, "none"), Failure(us, nid, ""))
    ELSE LET userData == [WithDefaultRole(r.body) EXCEPT !.confirmPassword = Absent,
                                                        !.avatar = avatarUrlOf(o)]
             made == createUser(us, nid, userData, salt)
             res == IF made.ok /\ avatarUrlOf(o) # Absent
                    THEN updateUser(made.users, made.nextId, nid,
                                    [EmptyBody EXCEPT !.avatar =
                                        fileUrlOf(replaceOwner(o.fileName, nid))])
                    ELSE made
         IN  IF res.ok
             THEN Outcome(Reply(r, 201, "", "", FALSE, SignFor(res.user, iat), res.user,
                                r.route, "createUser"), res)
             ELSE Outcome(Reply(r, 400, "Registration failed", res.message, FALSE, {}, {},
                                r.route, "createUser"), res)

Register ==
    /\ \E r \in req, salt \in Salts, iat \in 0..MaxIat :
        /\ r.pc = "handler"
        /\ r.route = "register"
        /\ LET out == registerHandler(r, users, nextId, salt, iat)
           IN  /\ resp' = out.reply
               /\ users' = out.users
               /\ nextId' = out.nextId
               /\ registered' = Registered(registered, out.reply)
    /\ req' = {}
    /\ UNCHANGED <<files, held, up, calls, srv>>

ControllerRegister ==
    /\ \E r \in req, salt \in Salts, iat \in 0..MaxIat :
        /\ r.pc = "handler"
        /\ r.route = "AuthController.register"
        /\ \E o \in controllerRegisterUpload(r) :
            LET out == controllerRegisterHandler(r, users, nextId, salt, iat, o)
            IN  /\ files' = IF o.stored THEN files \cup {o.fileName} ELSE files
                /\ resp' = out.reply
                /\ users' = out.users
                /\ nextId' = out.nextId
                /\ registered' = Registered(registered, out.reply)
    /\ req' = {}
    /\ UNCHANGED <<held, up, calls, srv>>

(***************************************************************************)
(* routes/users.ts and controllers/userController.ts                       *)
(***************************************************************************)
\* UserController.getAllUsers
getAllUsersHandler(r, us, nid) ==
    Outcome(Reply(r, 200, "", "", FALSE, {}, getAllUsers(us), r.route, "getAllUsers"),
            Failure(us, nid, ""))

\* the reply of a handler that returns the user of a service result, or
\* answers with the status and error of its catch block
UserReply(r, res, okStatus, errStatus, error, op) ==
    IF res.ok
    THEN Outcome(Reply(r, okStatus, "", res.message, FALSE, {}, res.user, r.route, op), res)
    ELSE Outcome(Reply(r, errStatus, error, res.message, FALSE, {}, {}, r.route, op), res)

\* UserController.getProfile: getUserById(request.user.id)
getProfileHandler(r, us, nid) ==
    LET userId == CHOOSE i \in {u.id : u \in r.user} : TRUE
    IN  UserReply(r, getUserById(us, nid, userId), 200, 404, "User not found", "getUserById")

\* UserController.getUserById: getUserById(Number(request.params.id))
getUserByIdHandler(r, us, nid) ==
    UserReply(r, getUserById(us, nid, r.id), 200, 404, "User not found", "getUserById")

\* POST / of routes/users.ts (role: request.body.role || "USER") and
\* UserController.createUser: createUserSchema.parse, confirmPassword removed
createUserHandler(r, us, nid, salt) ==
    IF ~zodRegisterSchema(r.body)
    THEN Outcome(Reply(r, 400, "Validation Error", "Invalid input data", TRUE, {}, {},
                       r.route, "none"), Failure(us, nid, ""))
    ELSE LET userData == [WithDefaultRole(r.body) EXCEPT !.confirmPassword = Absent]
         IN  UserReply(r, createUser(us, nid, userData, salt), 201, 400, "Bad Request",
                       "createUser")

\* the policy with || in the place of &&
notOwnerOrNotAdmin(user, userId) == \E u \in user : u.role # "ADMIN" \/ u.id # userId

\* request.user.role !== 'ADMIN' && request.user.id !== userId
notOwnerNorAdmin(user, userId) == \E u \in user : u.role # "ADMIN" /\ u.id # userId

\* a handler that updates first and checks the owner afterwards
updateUserHandlerWriteFirst(r, us, nid) ==
    LET out == UserReply(r, updateUser(us, nid, r.id, r.body), 200, 400,
                         "Failed to update user", "updateUser")
    IN  IF notOwnerNorAdmin(r.user, r.id)
        THEN [out EXCEPT !.reply = Reply(r, 403, "Forbidden",
                                         "You can only update your own profile", FALSE,
                                         {}, {}, r.route, "none")]
        ELSE out

\* UserController.updateUser: the ownership check, updateUserSchema.parse,
\* then updateUser(userId, validatedData)
updateUserHandler(r, us, nid) ==
    IF notOwnerNorAdmin(r.user, r.id)
    THEN Outcome(Reply(r, 403, "Forbidden", "You can only update your own profile", FALSE,
                       {}, {}, r.route, "none"), Failure(us, nid, ""))
    ELSE IF ~zodUpdateSchema(r.body)
    THEN Outcome(Reply(r, 400, "Failed to update user", "ZodError", FALSE, {}, {},
                       r.route, "none"), Failure(us, nid, ""))
    ELSE UserReply(r, updateUser(us, nid, r.id, r.body), 200, 400, "Failed to update user",
                   "updateUser")

\* UserController.deleteUser
deleteUserHandler(r, us, nid) ==
    UserReply(r, deleteUser(us, nid, r.id), 200, 404, "User not found", "deleteUser")

\* a handler that touches the table alone
Handle(route, out) ==
    /\ resp' = out.reply
    /\ users' = out.users
    /\ nextId' = out.nextId
    /\ registered' = Registered(registered, out.reply)
    /\ req' = {}
    /\ UNCHANGED <<files, held, up, calls, srv>>

AtHandler(r, route) == r.pc = "handler" /\ r.route = route

GetAllUsers ==
    \E r \in req : AtHandler(r, "getAllUsers")
                   /\ Handle(r.route, getAllUsersHandler(r, users, nextId))

GetProfile ==
    \E r \in req : AtHandler(r, "getProfile")
                   /\ Handle(r.route, getProfileHandler(r, users, nextId))

GetUserById ==
    \E r \in req : AtHandler(r, "getUserById")
                   /\ Handle(r.route, getUserByIdHandler(r, users, nextId))

CreateUser ==
    \E r \in req, salt \in Salts :
        AtHandler(r, "createUser") /\ Handle(r.route, createUserHandler(r, users, nextId, salt))

UpdateUser ==
    \E r \in req : AtHandler(r, "updateUser")
                   /\ Handle(r.route, updateUserHandler(r, users, nextId))

DeleteUser ==
    \E r \in req : AtHandler(r, "deleteUser")
                   /\ Handle(r.route, deleteUserHandler(r, users, nextId))

(***************************************************************************)
(* controllers/userController.ts: uploadAvatar                             *)
(***************************************************************************)
\* UserController.uploadAvatar, up to the call of handleFileUpload:
\* the reply that ends the request early, or NoResp to go on
uploadAvatarEarly(r) ==
    IF notOwnerNorAdmin(r.user, r.id)
    THEN Reply(r, 403, "Forbidden", "You can only update your own avatar", FALSE,
               {}, {}, r.route, "none")
    ELSE IF ~r.multipart
    THEN Reply(r, 400, "Bad Request", "Request must be multipart/form-data", TRUE,
               {}, {}, r.route, "none")
    ELSE IF r.file = {}
    THEN Reply(r, 400, "Bad Request", "No file uploaded", FALSE, {}, {}, r.route, "none")
    ELSE IF \E d \in r.file : ~avatarSchema(d)
    THEN Reply(r, 400, "Validation Error", "Invalid file upload", TRUE, {}, {}, r.route, "none")
    ELSE NoResp

\* the rest of it: handleFileUpload came to o; updateUser(userId, {avatar: fileUrl})
uploadAvatarLate(r, us, nid, o) ==
    IF o.result # "success"
    THEN Outcome(Reply(r, 400, "Bad Request", o.result, FALSE, {}, {}, r.route,
                       "handleFileUpload"), Failure(us, nid, ""))
    ELSE UserReply(r, updateUser(us, nid, r.id,
                                 [EmptyBody EXCEPT !.avatar = fileUrlOf(o.fileName)]),
                   200, 400, "Bad Request", "updateUser")

UploadAvatar ==
    \E r \in req :
        /\ AtHandler(r, "uploadAvatar")
        /\ IF uploadAvatarEarly(r) # NoResp
           THEN /\ resp' = uploadAvatarEarly(r)
                /\ UNCHANGED <<users, nextId, files>>
           ELSE \E part \in secondFile(r) : \E o \in uploadOutcomes(part, r.id) :
                    LET out == uploadAvatarLate(r, users, nextId, o)
                    IN  /\ resp' = out.reply
                        /\ users' = out.users
                        /\ nextId' = out.nextId
                        /\ files' = IF o.stored THEN files \cup {o.fileName} ELSE files
        /\ req' = {}
        /\ UNCHANGED <<held, up, registered, calls, srv>>

(***************************************************************************)
(* The HTTP specification                                                  *)
(***************************************************************************)
Init ==
    /\ users = [i \in {1} |-> SeedAdmin]
    /\ nextId = 2
    /\ files = {}
    /\ held = {}
    /\ req = {}
    /\ resp = NoResp
    /\ up = NoUpload
    /\ registered = {}
    /\ calls = <<>>
    /\ srv = NoServer

Next ==
    \/ Receive
    \/ Authenticate
    \/ AdminOnly
    \/ ClientRead
    \/ ClientKeep
    \/ ClientDrop
    \/ Login
    \/ ControllerLogin
    \/ Register
    \/ ControllerRegister
    \/ GetAllUsers
    \/ GetProfile
    \/ GetUserById
    \/ CreateUser
    \/ UpdateUser
    \/ DeleteUser
    \/ UploadAvatar

Spec == Init /\ [][Next]_vars

(***************************************************************************)
(* The upload specification: one call, any file part, any event order      *)
(***************************************************************************)
UploadInit ==
    /\ users = [i \in {1} |-> SeedAdmin]
    /\ nextId = 2
    /\ files = {}
    /\ held = {}
    /\ req = {}
    /\ resp = NoResp
    /\ registered = {}
    /\ calls = <<>>
    /\ srv = NoServer
    /\ \E part \in {{}} \cup {{p} : p \in Parts}, userId \in 0..1 :
           up = UploadCall(part, userId)

SpecUpload == UploadInit /\ [][UploadNext]_vars

(***************************************************************************)
(* Service calls in flight together.  Each await of createUser and         *)
(* updateUser is a step of its own; the table is the MySQL table with its  *)
(* unique index on email.                                                  *)
(***************************************************************************)
MaxCalls == 2

Callers == 1..MaxCalls

CallEmails == {"admin@example.com", "a@x.io"}

\* a second user of the table
SeedUser ==
    [id |-> 2, email |-> "john@example.com", password |-> bcryptHash("user123", 0),
     name |-> "John", avatar |-> Null, role |-> "USER"]

\* a row other than id holds the email
emailTaken(us, email, id) == \E i \in DOMAIN us : i # id /\ us[i].email = email

\* an insert into a table without the unique index
prismaCreateNoIndex(us, nid, data, salt) == createUserUnchecked(us, nid, data, salt)

\* prisma.user.create: the insert, refused by the unique index on email
prismaCreate(us, nid, data, salt) ==
    IF emailTaken(us, data.email, nid)
    THEN Failure(us, nid, "Unique constraint failed on the fields: (email)")
    ELSE createUser(us, nid, data, salt)

\* prisma.user.update: the update, refused by the unique index on email
prismaUpdate(us, nid, id, data) ==
    IF findById(us, id) = {}
    THEN Failure(us, nid, "Record to update not found")
    ELSE IF data.email # Absent /\ emailTaken(us, data.email, id)
    THEN Failure(us, nid, "Unique constraint failed on the fields: (email)")
    ELSE updateUser(us, nid, id, data)

\* a call of createUser(data) or updateUser(id, data) before its first await
Call(op, id, email) ==
    [op |-> op, id |-> id, pc |-> "findUnique", message |-> "",
     data |-> IF op = "createUser"
              THEN Body(email, "secret1", Absent, "Al", Absent)
              ELSE Body(email, Absent, Absent, Absent, Absent)]

CallInputs == {Call(op, id, email) : op \in {"createUser", "updateUser"},
                                     id \in 1..2, email \in CallEmails}

Thrown(c, message) == [c EXCEPT !.pc = "thrown", !.message = message]

\* createUser: findUnique by email; updateUser: findUnique by id
CallFindUnique(p) ==
    /\ calls[p].pc = "findUnique"
    /\ calls' = [calls EXCEPT ![p] =
          IF @.op = "createUser"
          THEN IF findByEmail(users, @.data.email) # {}
               THEN Thrown(@, "User with this email already exists")
               ELSE [@ EXCEPT !.pc = "write"]
          ELSE IF findById(users, @.id) = {}
               THEN Thrown(@, "User not found")
               ELSE IF @.data.email # users[@.id].email
               THEN [@ EXCEPT !.pc = "emailExists"]
               ELSE [@ EXCEPT !.pc = "write"]]
    /\ UNCHANGED <<users, nextId, files, held, req, resp, up, registered, srv>>

\* updateUser: findUnique by the new email
CallEmailExists(p) ==
    /\ calls[p].pc = "emailExists"
    /\ calls' = [calls EXCEPT ![p] =
          IF findByEmail(users, @.data.email) # {}
          THEN Thrown(@, "Email already in use")
          ELSE [@ EXCEPT !.pc = "write"]]
    /\ UNCHANGED <<users, nextId, files, held, req, resp, up, registered, srv>>

\* bcrypt.hash and prisma.user.create, or prisma.user.update
CallWrite(p) ==
    /\ calls[p].pc = "write"
    /\ \E salt \in Salts :
          LET c == calls[p]
              res == IF c.op = "createUser"
                     THEN prismaCreate(users, nextId, c.data, salt)
                     ELSE prismaUpdate(users, nextId, c.id, c.data)
          IN  /\ users' = res.users
              /\ nextId' = res.nextId
              /\ calls' = [calls EXCEPT ![p] =
                    IF res.ok THEN [@ EXCEPT !.pc = "returned"] ELSE Thrown(@, res.message)]
    /\ UNCHANGED <<files, held, req, resp, up, registered, srv>>

RaceNext ==
    \E p \in Callers :
        \/ CallFindUnique(p)
        \/ CallEmailExists(p)
        \/ CallWrite(p)

RaceInit ==
    /\ users \in {[i \in {1} |-> SeedAdmin],
                  [i \in {1, 2} |-> IF i = 1 THEN SeedAdmin ELSE SeedUser]}
    /\ nextId = 3
    /\ files = {}
    /\ held = {}
    /\ req = {}
    /\ resp = NoResp
    /\ up = NoUpload
    /\ registered = {}
    /\ calls \in [Callers -> CallInputs]
    /\ srv = NoServer

SpecRace == RaceInit /\ [][RaceNext]_vars

(***************************************************************************)
(* AuthController.register as a function of its request: one call with a   *)
(* request that holds a body and a file.  (The server as configured does    *)
(* not attach the fields of a multipart request to the body, and there the  *)
(* call ends at registerSchema.parse.)                                      *)
(***************************************************************************)
RegisterCalls ==
    {[Req("AuthController.register", {}, 0, b, TRUE, f) EXCEPT !.pc = "handler"] :
        b \in RegisterBodies, f \in RequestFiles}

RegisterInit ==
    /\ users = [i \in {1} |-> SeedAdmin]
    /\ nextId = 2
    /\ files = {}
    /\ held = {}
    /\ req \in {{r} : r \in RegisterCalls}
    /\ resp = NoResp
    /\ up = NoUpload
    /\ registered = {}
    /\ calls = <<>>
    /\ srv = NoServer

RegisterNext == ControllerRegister

SpecRegister == RegisterInit /\ [][RegisterNext]_vars

(***************************************************************************)
(* index.ts: start() and gracefulShutdown().  The code between two awaits  *)
(* runs as one step; process.exit ends every call.                         *)
(***************************************************************************)
ServerFrame == UNCHANGED <<users, nextId, files, held, req, resp, up, registered, calls>>

Running == srv.exit = -1

\* process.exit(code)
processExit(v, code) == [v EXCEPT !.exit = code]

\* a guard that lets every call of start() through
startGuardOpen(v) == TRUE

\* if (isServerStarting) return;
startGuard(v) == ~v.isServerStarting

\* start(): the guard; past it, isServerStarting = true and, when no server
\* is listening, server = createServer()
StartCall(p) ==
    /\ Running
    /\ srv.start[p].pc = "idle"
    /\ srv' = IF ~startGuard(srv)
              THEN [srv EXCEPT !.start[p].pc = "skipped"]
              ELSE IF srv.isServerListening
              THEN [srv EXCEPT !.isServerStarting = TRUE, !.start[p].pc = "close"]
              ELSE [srv EXCEPT !.isServerStarting = TRUE, !.start[p].pc = "register",
                               !.servers = @ + 1]
    /\ ServerFrame

\* await server.close() of the listening server: isServerListening = false,
\* or the error is logged; then server = createServer()
StartClose(p) ==
    /\ Running
    /\ srv.start[p].pc = "close"
    /\ \E closed \in BOOLEAN :
          srv' = [srv EXCEPT !.isServerListening = IF closed THEN FALSE ELSE @,
                             !.start[p].pc = "register",
                             !.servers = @ + 1]
    /\ ServerFrame

\* the plugins and routes are registered; a failure is caught by the outer
\* catch: process.exit(1)
StartRegister(p) ==
    /\ Running
    /\ srv.start[p].pc = "register"
    /\ \E registered_ok \in BOOLEAN :
          srv' = IF registered_ok
                 THEN [srv EXCEPT !.start[p].pc = "checkPort"]
                 ELSE processExit(srv, 1)
    /\ ServerFrame

\* currentPort of attempt k
currentPort(attempts) == IF attempts > 1 THEN port + attempts - 1 ELSE port

\* if (!isPortAvailable && attempts < MAX_RETRIES) continue;
skipPort(available, attempts) == ~available /\ attempts < MAX_RETRIES

\* the head of the loop: attempts++, await checkPort(currentPort), and
\* either continue or go on to listen
StartCheckPort(p) ==
    /\ Running
    /\ srv.start[p].pc = "checkPort"
    /\ srv.start[p].attempts < MAX_RETRIES
    /\ \E available \in BOOLEAN :
          LET attempts == srv.start[p].attempts + 1
          IN  srv' = [srv EXCEPT !.start[p].attempts = attempts,
                                 !.start[p].available = available,
                                 !.start[p].pc = IF skipPort(available, attempts)
                                                 THEN "checkPort" ELSE "listen"]
    /\ ServerFrame

\* await server.listen({port: currentPort, host}): on success
\* isServerListening = true and, after the loop, isServerStarting = false; on
\* failure the next attempt, or after MAX_RETRIES attempts the throw that
\* ends in process.exit(1)
StartListen(p) ==
    /\ Running
    /\ srv.start[p].pc = "listen"
    /\ \E listening \in BOOLEAN :
          LET c == srv.start[p]
              v == [srv EXCEPT !.listens = @ \cup {[call |-> p, attempt |-> c.attempts,
                                                    port |-> currentPort(c.attempts),
                                                    available |-> c.available]}]
          IN  srv' = IF listening
                     THEN [v EXCEPT !.isServerListening = TRUE, !.isServerStarting = FALSE,
                                    !.start[p].pc = "returned"]
                     ELSE IF c.attempts >= MAX_RETRIES
                     THEN processExit(v, 1)
                     ELSE [v EXCEPT !.start[p].pc = "checkPort"]
    /\ ServerFrame

\* the events that lead to gracefulShutdown
ShutdownEvents == {"SIGTERM", "SIGINT", "uncaughtException", "unhandledRejection"}

\* a guard that lets every call of gracefulShutdown() through
shutdownGuardOpen(v) == TRUE

\* if (isShuttingDown) return;
shutdownGuard(v) == ~v.isShuttingDown

\* gracefulShutdown() up to its first await: the guard, isShuttingDown = true,
\* prisma.$disconnect() started
gracefulShutdown(v, q) ==
    IF ~shutdownGuard(v)
    THEN [v EXCEPT !.shut[q] = "returned"]
    ELSE [v EXCEPT !.isShuttingDown = TRUE, !.shut[q] = "disconnect",
                   !.disconnect = IF @ = "" THEN "started" ELSE "started twice"]

\* an event arrives.  For uncaughtException the listener of the logger,
\* process.exit(1), runs in the same tick, before or after this one
ShutdownCall(q) ==
    /\ Running
    /\ srv.shut[q] = "idle"
    /\ \E event \in ShutdownEvents, first \in {"logger", "index"} :
          srv' = IF event = "uncaughtException"
                 THEN IF first = "logger"
                      THEN processExit(srv, 1)
                      ELSE processExit(gracefulShutdown(srv, q), 1)
                 ELSE gracefulShutdown(srv, q)
    /\ ServerFrame

\* prisma.$disconnect() settles: on success server.close(cb) is started, on
\* failure process.exit(1)
ShutdownDisconnected(q) ==
    /\ Running
    /\ srv.shut[q] = "disconnect"
    /\ \E ok \in BOOLEAN :
          srv' = IF ok
                 THEN [srv EXCEPT !.shut[q] = "close", !.disconnect = "ok",
                                  !.close = IF @ = "" THEN "started" ELSE "started twice"]
                 ELSE processExit([srv EXCEPT !.disconnect = "error"], 1)
    /\ ServerFrame

\* the callback of server.close: process.exit(0), or reject and process.exit(1)
ShutdownClosed(q) ==
    /\ Running
    /\ srv.shut[q] = "close"
    /\ \E ok \in BOOLEAN :
          srv' = IF ok
                 THEN processExit([srv EXCEPT !.close = "ok"], 0)
                 ELSE processExit([srv EXCEPT !.close = "error"], 1)
    /\ ServerFrame

ServerNext ==
    \/ \E p \in StartCalls :
          \/ StartCall(p)
          \/ StartClose(p)
          \/ StartRegister(p)
          \/ StartCheckPort(p)
          \/ StartListen(p)
    \/ \E q \in ShutdownCalls :
          \/ ShutdownCall(q)
          \/ ShutdownDisconnected(q)
          \/ ShutdownClosed(q)

ServerInit ==
    /\ users = [i \in {1} |-> SeedAdmin]
    /\ nextId = 2
    /\ files = {}
    /\ held = {}
    /\ req = {}
    /\ resp = NoResp
    /\ up = NoUpload
    /\ registered = {}
    /\ calls = <<>>
    /\ srv = NoServer

SpecServer == ServerInit /\ [][ServerNext]_vars

(***************************************************************************)
(* Properties                                                              *)
(***************************************************************************)
\* the step in which the handler of route rt answers request r
Answers(r, rt) == r \in req /\ r.pc = "handler" /\ r.route \in rt /\ req' = {}

LoginRoutes == {"login", "AuthController.login"}

BadCredentials(r) ==
    \/ IsEmail(r.body.email) /\ findByEmail(users, r.body.email) = {}
    \/ \E u \in findByEmail(users, r.body.email) : ~bcryptCompare(r.body.password, u.password)

\* the one reply of a refused login
Refusal(r) ==
    Reply(r, 401, "Authentication failed", "Invalid credentials", FALSE, {}, {},
          r.route, "loginUser")

\* C2 as stated: a login with a registered email and a wrong password, and a
\* login with an unregistered email and any password, get the same reply:
\* status 401, the same error kind and the same message.
C2_SameRefusal ==
    [][\A r \in req :
         Answers(r, LoginRoutes) /\ BadCredentials(r) => resp' = Refusal(r)]_vars

\* C2 amended: among the login requests that pass the input validation (a
\* well-formed email, a password of six characters or more), one with a
\* registered email and a wrong password and one with an unregistered email
\* get the same reply: 401, the same error kind, the same message.
C2_SameRefusalWhenValid ==
    [][\A r \in req :
         Answers(r, LoginRoutes) /\ zodLoginSchema(r.body) /\ BadCredentials(r)
            => resp' = Refusal(r)]_vars

\* a registered account was refused for a wrong password of valid length
C2_Witness ==
    /\ resp.route \in LoginRoutes
    /\ resp = Refusal([route |-> resp.route, user |-> {}, id |-> 0, auth |-> {},
                       body |-> resp.body])
    /\ resp.body.email \in registered
    /\ \E u \in findByEmail(users, resp.body.email) :
           ~bcryptCompare(resp.body.password, u.password)

\* the four claims an identity is compared by
Four(x) == [id |-> x.id, email |-> x.email, name |-> x.name, role |-> x.role]

\* C3: the token of a successful login or register verifies under the process
\* secret, and the identity it yields has the id, email, name and role of the
\* record returned in the same response.
C3_RoundTrip ==
    resp.route \in LoginRoutes \cup CreatingRoutes /\ resp.status \in {200, 201}
                                                   /\ resp.route # "createUser"
        => /\ resp.token # {}
           /\ jwtVerify(resp.token) # {}
           /\ {Four(i) : i \in jwtVerify(resp.token)} = {Four(u) : u \in resp.user}

C3_Witness ==
    /\ resp.route = "register"
    /\ resp.status = 201
    /\ \E i \in jwtVerify(resp.token) : i.email = "john@example.com"

\* the bearers the claim lists, built from the tokens that were issued:
\* none, cut short, signed under another secret, the last byte changed
Rejectable ==
    {{}} \cup {{Truncate(t)} : t \in held} \cup {{Resign(t)} : t \in held}
         \cup {{TamperTail(t)} : t \in held}

\* C4 as stated: every request whose bearer is missing, malformed, signed with
\* another secret or altered in its last byte is rejected with 401 and gets no
\* identity.
C4_Rejected401 ==
    resp.route \in ProtectedRoutes /\ resp.auth \in Rejectable
        => resp.status = 401 /\ resp.by = {}

\* C4 amended: every request that passes the schema validation of its route
\* and whose bearer is missing, malformed, signed with another secret or
\* altered in its last byte is rejected by authenticate with 401, with no
\* identity and before any handler; and a request has an identity only if its
\* bearer verifies, and then the identity is the payload of the bearer.
C4_FailsClosed ==
    /\ [](\A r \in req : r.user # {} => /\ \A t \in r.auth : jwtVerifies(t)
                                        /\ r.user = {t.payload : t \in r.auth})
    /\ [][\A r \in req :
            r.pc = "authenticate" /\ r.auth \in Rejectable
               => /\ req' = {}
                  /\ resp'.status = 401
                  /\ resp'.by = {}
                  /\ resp'.handler = "none"]_vars

C4_Witness ==
    /\ resp.status = 401
    /\ resp.route \in ProtectedRoutes
    /\ \E t \in held : resp.auth = {TamperTail(t)}

\* the reply is to a request that reached the handler of an owner-or-admin route
PolicyApplied == resp.route \in OwnerRoutes /\ resp.handler = resp.route

\* C5: in updateUser and uploadAvatar the owner-or-admin check passes when the
\* identity's id is the target id, passes when its role is ADMIN, and fails
\* with 403 Forbidden otherwise, whatever else the request and the table hold.
C5_OwnerOrAdmin ==
    PolicyApplied =>
        /\ resp.by # {}
        /\ \A i \in resp.by :
              (resp.status = 403 /\ resp.error = "Forbidden")
                  <=> ~(i.id = resp.target \/ i.role = "ADMIN")

\* a USER passed the check on their own record, not being ADMIN
C5_Witness ==
    /\ PolicyApplied
    /\ resp.status = 200
    /\ \E i \in resp.by : i.role = "USER" /\ i.id = resp.target

\* the role or ownership check of the route fails for the identity
CheckFails(route, identity, target) ==
    \/ route \in AdminRoutes /\ \E i \in identity : i.role # "ADMIN"
    \/ route \in OwnerRoutes /\ \E i \in identity : i.role # "ADMIN" /\ i.id # target

\* 401 exactly for the anonymous, 403 exactly for the identified whose check
\* fails, and a 401 comes from the verification step
Distinction ==
    /\ resp.status = 401 <=> jwtVerify(resp.auth) = {}
    /\ resp.status = 403 <=> /\ jwtVerify(resp.auth) # {}
                             /\ CheckFails(resp.route, jwtVerify(resp.auth), resp.target)
    /\ resp.status = 401 => resp.by = {} /\ resp.message = "Invalid or missing token"
    /\ resp.status = 403 => resp.by = jwtVerify(resp.auth)

SchemaRejected == resp.status = 400 /\ resp.handler = "none"

C7_AdminOnly ==
    /\ \A r \in req : r.pc = "handler" /\ r.route \in AdminRoutes
          => r.user = jwtVerify(r.auth) /\ \E i \in r.user : i.role = "ADMIN"
    /\ resp.route \in AdminRoutes /\ resp.handler # "none"
          => resp.by = jwtVerify(resp.auth) /\ \E i \in resp.by : i.role = "ADMIN"
    /\ resp.route = "updateUser" /\ resp.op = "updateUser"
          => /\ resp.by = jwtVerify(resp.auth)
             /\ \E i \in resp.by : i.role = "ADMIN" \/ i.id = resp.target

\* an ADMIN deleted a record
C7_Witness ==
    /\ resp.route = "deleteUser"
    /\ resp.status = 200
    /\ \E i \in resp.by : i.role = "ADMIN"
    /\ resp.target \notin DOMAIN users

\* the ids of the records with role ADMIN
Admins(us) == {i \in DOMAIN us : us[i].role = "ADMIN"}

\* the identity of the request is a USER's, in the token and in the table
ByUser(r) ==
    /\ r.user # {}
    /\ \A i \in r.user : i.role = "USER" /\ i.id \in DOMAIN users /\ users[i.id].role = "USER"

\* C8: a request issued by a caller whose stored role is USER makes no stored
\* record ADMIN, is given no token with role ADMIN, and runs no admin-only
\* operation; so no sequence of such requests does.
C8_UserStaysUser ==
    [][\A r \in req :
         r.pc = "handler" /\ req' = {} /\ ByUser(r)
            => /\ Admins(users') \subseteq Admins(users)
               /\ \A t \in resp'.token : t.payload.role # "ADMIN"
               /\ r.route \notin AdminRoutes]_vars

SelfService == {"register", "AuthController.register"}

\* C9: a register request answered with success has stored, returned and
\* signed role USER, whatever role the request supplied.
C9_RegisterForcesUser ==
    resp.route \in SelfService /\ resp.status = 201
        => /\ \A u \in resp.user : u.role = "USER" /\ users[u.id].role = "USER"
           /\ \A t \in resp.token : t.payload.role = "USER"

\* the source of the call is declared an image and delivers more than maxSize
Oversize == \E d \in up.part : isImage(d.mimetype) /\ Sum(d.chunks) > maxSize

\* C10: for a source declared an image that delivers more than maxSize bytes,
\* handleFileUpload never returns a result, the error it throws is a
\* PayloadTooLargeError, and once it has thrown no file is at the destination.
C10_OversizeFails ==
    Oversize => /\ up.pc # "returned"
                /\ up.pc = "thrown" => up.kind = "PayloadTooLargeError" /\ ~up.exists

\* the streams of the upload are at rest: no event is left to deliver
AtRest == ~ENABLED UploadNext

\* the part of the upload is not an image
NonImage == \E d \in up.part : ~isImage(d.mimetype)

\* C11: an upload whose media type is not "image/..." fails with a
\* ValidationError, before a byte of the part is read and before the
\* destination file is created
C11_NonImageValidationError ==
    (NonImage /\ up.pc # "start") =>
        /\ up.pc = "thrown"
        /\ up.kind = "ValidationError"
        /\ \A d \in up.part : up.src = d.chunks
        /\ up.fileSize = 0
        /\ ~up.opened /\ ~up.exists

\* C12: when the source of the part has ended without 'end' after the
\* destination file was opened, the upload has failed and the partial file is
\* removed once the streams are at rest
C12_AbortedUploadFails ==
    (up.aborted = "after open" /\ AtRest) => (up.pc = "thrown" /\ ~up.exists)

\* the bytes of the part delivered to the 'data' listener so far
Delivered == IF up.part = {} \/ up.fileName = "" THEN 0
             ELSE Sum((CHOOSE d \in up.part : TRUE).chunks) - Sum(up.src)

\* C13 (state part): the running counter counts every byte delivered, and the
\* bytes handed to the destination stream never exceed maxSize
C13_Counted ==
    /\ up.aborted = "" => up.fileSize = Delivered
    /\ up.handed <= maxSize
    /\ up.disk <= up.handed

\* C13 (step part): once the counter has exceeded maxSize no chunk is handed
\* to the destination stream, and a chunk that takes the counter beyond
\* maxSize is not handed over either
C13_NoWriteBeyond ==
    [][(up.fileSize > maxSize \/ up'.fileSize > maxSize) => up'.handed = up.handed]_vars

\* C13: the size limit is enforced while streaming, chunk by chunk
C13_LimitWhileStreaming == []C13_Counted /\ C13_NoWriteBeyond

\* the counter has gone beyond the limit after a chunk was handed over
C13_Witness ==
    /\ up.fileSize > maxSize
    /\ up.handed = maxSize
    /\ up.destroyed

\* C14: a successful upload leaves the file in storage with every byte of the
\* part: no write error is outstanding when success is returned, and at rest
\* the file exists and holds the whole part
C14_SuccessLeavesFile ==
    (up.pc = "returned" /\ ~Oversize) =>
        /\ up.errPending = "" /\ ~up.destroyed
        /\ AtRest => \A d \in up.part : up.exists /\ up.disk = Sum(d.chunks)

\* C20: a failed upload reports its own cause: the error thrown to the caller
\* is the error that made the upload fail
C20_FailureReported ==
    up.pc = "thrown" => (up.result = up.error /\ up.kind # "Error")

\* C16: no record in a response has a password field: the user of every
\* reply of register, login, profile, the user routes and upload-avatar, and
\* every user of the list, is returned without its password
C16_NoPasswordLeaves ==
    \A u \in resp.user : "password" \notin DOMAIN u

\* a login answered 200 with the record of the user
C16_Witness ==
    /\ resp.route \in LoginRoutes
    /\ resp.status = 200
    /\ resp.user # {}
    /\ \A u \in resp.user : \E i \in DOMAIN users : users[i].email = u.email /\ users[i].id = u.id

\* two calls register the same email
SameRegistration(p, q) ==
    /\ p # q
    /\ calls[p].op = "createUser" /\ calls[q].op = "createUser"
    /\ calls[p].data.email = calls[q].data.email

\* C15: in every interleaving of the steps of concurrent createUser and
\* updateUser calls no two rows of the table hold the same email, and of two
\* concurrent registrations of one email at most one returns
C15_UniqueEmail ==
    /\ \A i, j \in DOMAIN users : users[i].email = users[j].email => i = j
    /\ \A p, q \in DOMAIN calls :
          SameRegistration(p, q) => ~(calls[p].pc = "returned" /\ calls[q].pc = "returned")

\* two registrations of one email both passed the findUnique check; one
\* returned and the insert of the other was refused by the index
C15_Witness ==
    \E p, q \in DOMAIN calls :
        /\ SameRegistration(p, q)
        /\ calls[p].pc = "returned"
        /\ calls[q].pc = "thrown"
        /\ calls[q].message = "Unique constraint failed on the fields: (email)"

\* the routes that take a password
PasswordRoutes ==
    {"login", "AuthController.login", "register", "AuthController.register", "createUser"}

\* C17: for every login, register and create-user request, answered with
\* success or with an error, the password as sent is in no log entry and in
\* no user of the response, and every stored record holds a bcrypt hash
C17_PasswordNeverObservable ==
    /\ resp.route \in PasswordRoutes =>
          /\ resp.log.password = Absent
          /\ resp.log.confirmPassword = Absent
          /\ \A u \in resp.user : "password" \notin DOMAIN u
    /\ \A i \in DOMAIN users : users[i].password.alg = "bcrypt"

\* the request is refused for its fields: by the schema of the route, or by
\* registerSchema in the controller
RefusedForFields(r) == r.error \in {"FastifyError", "Validation Error"}

\* C18: a register request (with or without an avatar file) refused for its
\* fields has, when it is refused, created no record and written no file
C18_ValidationFirst ==
    [][(resp = NoResp /\ resp'.route \in SelfService /\ RefusedForFields(resp'))
           => (users' = users /\ files' = files)]_vars

\* the response reports that the body of the request is not valid: the reply
\* to a body refused by the schema of the route, or by the zod schema of a
\* controller (updateUser answers a zod failure from its general catch)
ValidationFailure(r) ==
    \/ r.error \in {"FastifyError", "Validation Error"}
    \/ r.route = "updateUser" /\ r.status = 400 /\ r.handler = r.route /\ r.op = "none"

\* C19: every response that reports a validation failure carries field-level
\* details, and every 401 or 403 response carries none
C19_DetailPolicy ==
    /\ ValidationFailure(resp) => resp.details
    /\ resp.status \in {401, 403} => ~resp.details

\* the extensions of the allow-list
AllowedExt == {"jpg", "jpeg", "png", "gif", "webp"}

\* C21: whatever file name the client supplied, the stored name is
\* user_<ownerId>_<random token>.<ext> with <ext> one of jpg, jpeg, png, gif,
\* webp
C21_StoredNameSafe ==
    up.fileName # "" =>
        \E uuid \in Uuids, ext \in AllowedExt :
            up.fileName = "user_" \o ToString(up.userId) \o "_" \o uuid \o "." \o ext

\* the files stored under the placeholder owner id 0
Placeholders == {storedName(0, uuid, f) : uuid \in Uuids, f \in FileNames}

\* the registration stored a file and was answered 201 with a user that has
\* an avatar
RegisteredWithAvatar ==
    /\ resp.route \in SelfService
    /\ resp.status = 201
    /\ \E u \in resp.user : u.avatar # Null
    /\ files # {}

SignedByServer(r) ==
    r.auth # {} /\ \A t \in r.auth : t.parts = 3 /\ t.sig = Hmac(t.payload, Secret)

\* the record of identity c is gone, or holds another role or email
Stale(c) ==
    \/ c.id \notin DOMAIN users
    \/ c.id \in DOMAIN users /\ (users[c.id].role # c.role \/ users[c.id].email # c.email)

\* C23: whatever the table holds, authenticate passes a request on exactly when
\* its token is signed with the secret, the identity it sets is the claims
\* put into the token when it was issued, and the step leaves the table as
\* it is
C23_TokenOnly ==
    [][\A r \in req : r.pc = "authenticate" =>
          /\ users' = users
          /\ IF SignedByServer(r)
             THEN \E q \in req' : q.user = {t.payload : t \in r.auth} /\ q.pc # "authenticate"
             ELSE req' = {} /\ resp'.status = 401]_vars

\* a request is past authenticate with an identity whose record has since
\* been deleted or changed
C23_Witness ==
    \E r \in req : /\ r.pc \notin {"received", "authenticate"}
                   /\ r.user # {}
                   /\ \A c \in r.user : Stale(c)

\* the body meets the constraints of a registration: a well-formed email, a
\* password of 6 characters or more with an equal confirmation, a name of 2
\* characters or more
MeetsConstraints(b) ==
    /\ Has(b, "email") /\ IsEmail(b.email)
    /\ MinLen(b, "password", MinPasswordLength)
    /\ Has(b, "confirmPassword") /\ b.confirmPassword = b.password
    /\ MinLen(b, "name", MinNameLength)

\* the step creates exactly one record, with the email of the request
CreatesOne(b) ==
    /\ DOMAIN users' = DOMAIN users \cup {nextId}
    /\ nextId \notin DOMAIN users
    /\ users'[nextId].email = b.email
    /\ \A i \in DOMAIN users : users'[i] = users[i]

\* C24: a register or create-user request that breaks a constraint creates
\* no record and, unless it is refused 401 or 403, is refused for its fields;
\* a request that meets them with an unused email, once in its handler,
\* creates exactly one record
C24_RegistrationConstraints ==
    [][(resp = NoResp /\ resp'.route \in CreatingRoutes) =>
          /\ ~MeetsConstraints(resp'.body) =>
                /\ users' = users
                /\ resp'.status \in {401, 403} \/ RefusedForFields(resp')
          /\ (/\ MeetsConstraints(resp'.body)
              /\ resp'.handler = resp'.route
              /\ findByEmail(users, resp'.body.email) = {}) => CreatesOne(resp'.body)]_vars

\* the step in which updateUser(id, data) is called for PUT /:id
UpdateCalled == resp = NoResp /\ resp'.route = "updateUser" /\ resp'.op = "updateUser"

\* data.email is an email other than the one of record id, held by another
\* record
EmailOfAnother(id, data) ==
    /\ data.email # Absent
    /\ data.email # users[id].email
    /\ \E i \in DOMAIN users : i # id /\ users[i].email = data.email

\* C25: updateUser(id, data) fails with 'User not found' when id names no
\* record, and with 'Email already in use' when data.email is the email of
\* another record, leaving every record as it was; with its own email or
\* none the update is not refused
C25_UpdateEmail ==
    [][UpdateCalled =>
          LET id == resp'.target
              data == resp'.body
          IN  IF id \notin DOMAIN users
              THEN resp'.message = "User not found" /\ users' = users
              ELSE IF EmailOfAnother(id, data)
              THEN resp'.message = "Email already in use" /\ users' = users
              ELSE /\ resp'.status = 200
                   /\ \A i \in DOMAIN users : i # id => users'[i] = users[i]
                   /\ data.email # Absent => users'[id].email = data.email]_vars

\* an update of an existing record was refused for the email of another
C25_Witness ==
    /\ resp.route = "updateUser"
    /\ resp.message = "Email already in use"
    /\ resp.target \in DOMAIN users

\* the step in which a request to a protected route is answered 401 or 403
Rejected == resp = NoResp /\ resp'.route \in ProtectedRoutes /\ resp'.status \in {401, 403}

\* C26 as stated: a request to a protected route that ends with 401 or 403
\* has not entered the body of its handler
C26_HandlerNeverEntered ==
    (resp.route \in ProtectedRoutes /\ resp.status \in {401, 403}) => resp.handler = "none"

\* C26: a request to a protected route that ends with 401 or 403 leaves the
\* records, the id counter and the files as they were and has called no
\* service operation; the handler is entered only for the 403 of the
\* ownership check of update-user and upload-avatar, which is its first step
C26_RejectedChangesNothing ==
    [][Rejected =>
          /\ users' = users /\ nextId' = nextId /\ files' = files
          /\ resp'.op = "none"
          /\ resp'.handler # "none" => (resp'.status = 403 /\ resp'.route \in OwnerRoutes)]_vars

\* update-user or upload-avatar was answered 403 by the ownership check of
\* its handler
C26_Witness ==
    /\ resp.route \in OwnerRoutes
    /\ resp.status = 403
    /\ resp.handler = resp.route
    /\ \E c \in resp.by : c.id # resp.target /\ c.role # "ADMIN"

\* the execution of start() is past its guard and has not ended
PastGuard(p) == srv.start[p].pc \in {"close", "register", "checkPort", "listen"}

\* C27 (state part): at most one execution of start() is past the guard, and
\* while the process runs isServerStarting is true exactly when one is
C27_OnePastGuard ==
    /\ Cardinality({p \in StartCalls : PastGuard(p)}) <= 1
    /\ Running => (srv.isServerStarting <=> \E p \in StartCalls : PastGuard(p))

\* C27 (step part): a call made while isServerStarting is true returns and
\* changes nothing else; an execution that returns normally past the guard
\* leaves isServerStarting false and isServerListening true
C27_Steps ==
    [][\A p \in StartCalls :
          /\ (srv.start[p].pc = "idle" /\ srv'.start[p].pc # "idle" /\ srv.isServerStarting)
                => srv' = [srv EXCEPT !.start[p].pc = "skipped"]
          /\ (srv.start[p].pc # "returned" /\ srv'.start[p].pc = "returned")
                => (~srv'.isServerStarting /\ srv'.isServerListening)]_vars

\* C27: the guard of start()
C27_StartGuard == []C27_OnePastGuard /\ C27_Steps

\* one call of start() has returned with the server listening, one was
\* skipped as a duplicate, and a later one is past the guard
C27_Witness ==
    \E p, q, r \in StartCalls :
        /\ srv.start[p].pc = "returned"
        /\ srv.start[q].pc = "skipped"
        /\ PastGuard(r)

\* C28: start() calls listen at most MAX_RETRIES times, attempt k on
\* port + k - 1, never on a port that checkPort has just reported
\* unavailable, and ends listening or with exit code 1
C28_PortRetry ==
    \A p \in StartCalls :
        /\ srv.start[p].attempts <= MAX_RETRIES
        /\ \A l \in srv.listens :
              /\ l.attempt \in 1..MAX_RETRIES
              /\ l.port = port + l.attempt - 1
              /\ l.available
        /\ srv.start[p].pc = "returned" => srv.isServerListening

\* the invocation of gracefulShutdown is past its guard
ShuttingDown(q) == srv.shut[q] \in {"disconnect", "close"}

\* C29 (state part): the disconnect and the close are each started at most
\* once, by one invocation; that invocation has a step to take until the
\* process exits; the exit code is 0 only after both steps succeeded and 1
\* after one failed
C29_Once ==
    /\ srv.disconnect # "started twice" /\ srv.close # "started twice"
    /\ Cardinality({q \in ShutdownCalls : ShuttingDown(q)}) <= 1
    /\ \A q \in ShutdownCalls :
          (ShuttingDown(q) /\ Running) =>
              ENABLED (ShutdownDisconnected(q) \/ ShutdownClosed(q))
    /\ srv.exit = 0 <=> (srv.disconnect = "ok" /\ srv.close = "ok")
    /\ (srv.disconnect = "error" \/ srv.close = "error") => srv.exit = 1

\* C29 (step part): an invocation made while isShuttingDown is true returns
\* and changes nothing else
C29_Steps ==
    [][\A q \in ShutdownCalls :
          (srv.shut[q] = "idle" /\ srv'.shut[q] # "idle" /\ srv.isShuttingDown)
              => srv'.shut[q] = "returned"
                 /\ srv'.disconnect = srv.disconnect /\ srv'.close = srv.close]_vars

\* C29: gracefulShutdown runs at most once
C29_ShutdownOnce == []C29_Once /\ C29_Steps

\* a second invocation has returned at its guard, and the first has ended
\* the process with code 0
C29_Witness ==
    /\ srv.exit = 0
    /\ \E q \in ShutdownCalls : srv.shut[q] = "returned"

\* the step in which an upload-avatar request is answered
AvatarAnswered == resp = NoResp /\ resp'.route = "uploadAvatar"

\* C30: an upload-avatar request answered with an error has left no file in
\* storage and changed no record, also when the file was stored and the
\* target id names no record
C30_AllOrNothing ==
    [][(AvatarAnswered /\ resp'.status # 200) => (files' = files /\ users' = users)]_vars

====
